---- MODULE Spec2Model ----
(***************************************************************************)
(* Model of jupyterhub/services/auth.py: the expiring cookie cache          *)
(* (_ExpiringDict), the Hub cookie verification (HubAuth.user_for_cookie,   *)
(* HubAuth.get_user) and the handler mixin (HubAuthenticated).              *)
(*                                                                         *)
(* Time is the monotonic clock read by time.monotonic().  A verification    *)
(* is two steps, the call up to the HTTP request and the rest from the      *)
(* response on: the clock and other tasks may move in between.              *)
(***************************************************************************)
EXTENDS Integers, FiniteSets, Sequences, TLC

(* ------------------------------ bounds -------------------------------- *)

\* the monotonic clock runs over 0..MaxTime
MaxTime == 2
\* max_age is drawn from 0..MaxAgeBound
MaxAgeBound == 1

(* ------------------------------ values -------------------------------- *)

\* Python's None
None == [kind |-> "None"]

\* the user names the Hub knows
Names == {"nandy", "bob"}

\* a user model: the dict decoded from the Hub's JSON reply
UserModel(n) == [kind |-> "dict", name |-> n]

UserModels == {UserModel(n) : n \in Names}

\* cookie values a caller may pass, the empty string among them
CookieValues == {"", "abc"}

\* the tasks: each handles one request (one handler object) at a time
Tasks == {"t1", "t2"}

(* --------------------------- _ExpiringDict ---------------------------- *)

\* _ExpiringDict.__init__
ExpiringDict(max_age) ==
    [max_age |-> max_age, timestamps |-> <<>>, values |-> <<>>]

\* dict[key] = value on a plain dict
DictSet(d, key, value) ==
    [k \in (DOMAIN d) \cup {key} |-> IF k = key THEN value ELSE d[k]]

\* dict.pop(key)
DictPop(d, key) == [k \in (DOMAIN d) \ {key} |-> d[k]]

\* _ExpiringDict.__setitem__ at monotonic time t
SetItem(c, key, value, t) ==
    [c EXCEPT !.timestamps = DictSet(c.timestamps, key, t),
              !.values = DictSet(c.values, key, value)]

\* the comparison of _check_age with <= for <: an entry dies one tick early
ExpiredEarly(c, timestamp, t) == c.max_age > 0 /\ timestamp + c.max_age <= t

\* the comparison of _check_age with max_age >= 0 for max_age > 0: a cache
\* that should keep its entries for ever drops them as soon as time passes
ExpiredAtZero(c, timestamp, t) == c.max_age >= 0 /\ timestamp + c.max_age < t

\* the comparison of _check_age letting an entry live one tick longer
ExpiredLate(c, timestamp, t) == c.max_age > 0 /\ timestamp + c.max_age + 1 < t

\* the comparison of _check_age: the entry is over age at time t
Expired(c, timestamp, t) == c.max_age > 0 /\ timestamp + c.max_age < t

\* _check_age sweeping the whole cache: every entry over age is removed
CheckAgeSweepsAll(c, key, t) ==
    IF key \notin DOMAIN c.values
    THEN c
    ELSE LET keep == {k \in DOMAIN c.values : ~Expired(c, c.timestamps[k], t)}
         IN [c EXCEPT !.values = [k \in keep |-> c.values[k]],
                      !.timestamps = [k \in keep |-> c.timestamps[k]]]

\* _check_age popping the value of an entry over age and not its timestamp
CheckAgeKeepsTimestamp(c, key, t) ==
    IF key \notin DOMAIN c.values
    THEN c
    ELSE IF Expired(c, c.timestamps[key], t)
         THEN [c EXCEPT !.values = DictPop(c.values, key)]
         ELSE c

\* _ExpiringDict._check_age at monotonic time t: the cache afterwards
CheckAge(c, key, t) ==
    IF key \notin DOMAIN c.values
    THEN c
    ELSE IF Expired(c, c.timestamps[key], t)
         THEN [c EXCEPT !.values = DictPop(c.values, key),
                        !.timestamps = DictPop(c.timestamps, key)]
         ELSE c

\* __contains__ without the call of _check_age: the plain dict test
ContainsNoAgeCheck(c, key, t) == [cache |-> c, found |-> key \in DOMAIN c.values]

\* _ExpiringDict.__contains__: the cache afterwards and the answer
Contains(c, key, t) ==
    LET d == CheckAge(c, key, t)
    IN [cache |-> d, found |-> key \in DOMAIN d.values]

\* _ExpiringDict.__getitem__: the cache afterwards, and the value or KeyError
GetItem(c, key, t) ==
    LET d == CheckAge(c, key, t)
    IN IF key \in DOMAIN d.values
       THEN [cache |-> d, found |-> TRUE, value |-> d.values[key]]
       ELSE [cache |-> d, found |-> FALSE, value |-> None]

\* _ExpiringDict.get: the cache afterwards and the value or the default
Get(c, key, default, t) ==
    LET g == GetItem(c, key, t)
    IN [cache |-> g.cache, value |-> IF g.found THEN g.value ELSE default]

(* --------------------------- Hub responses ---------------------------- *)

\* requests.get raised requests.ConnectionError
ConnectionError == [error |-> "ConnectionError"]

\* a body that r.json() cannot decode
NotJSON == [kind |-> "NotJSON"]

\* the HTTP status codes the Hub is taken to answer with
Statuses == {200, 202, 400, 403, 404, 500, 503}

\* what requests.get can come back with; the body matters below 400 only
Responses ==
    {ConnectionError}
      \cup {[status |-> s, body |-> b] :
               s \in {x \in Statuses : x < 400}, b \in UserModels \cup {NotJSON}}
      \cup {[status |-> s, body |-> None] : s \in {x \in Statuses : x >= 400}}

(* ------------------------------ outcomes ------------------------------ *)

Return(v) == [kind |-> "return", value |-> v]

\* tornado.web.HTTPError(code, msg); the messages are told apart by a word
HTTPError(code, reason) ==
    [kind |-> "raise", exc |-> "HTTPError", code |-> code, reason |-> reason]

\* r.json() on a body that is not JSON
ValueError == [kind |-> "raise", exc |-> "ValueError"]

\* None['name']
TypeError == [kind |-> "raise", exc |-> "TypeError"]

\* the call has not ended
NoOutcome == [kind |-> "none"]

(* ------------------------ HubAuth.user_for_cookie ---------------------- *)

\* user_for_cookie with the cache check dropping "is not None": whatever the
\* cache says is returned, a miss included
UserForCookieBeginNoRetry(c, encrypted_cookie, use_cache, t) ==
    LET g == Get(c, encrypted_cookie, None, t)
    IN IF use_cache
       THEN [cache |-> g.cache, done |-> TRUE, value |-> g.value]
       ELSE [cache |-> c, done |-> FALSE, value |-> None]

\* user_for_cookie reading the cache whatever use_cache says
UserForCookieBeginAlwaysCache(c, encrypted_cookie, use_cache, t) ==
    LET g == Get(c, encrypted_cookie, None, t)
    IN IF g.value # None
       THEN [cache |-> g.cache, done |-> TRUE, value |-> g.value]
       ELSE [cache |-> g.cache, done |-> FALSE, value |-> None]

\* user_for_cookie up to the request: the cache afterwards, whether the call
\* returned from the cache, and the value it returned
UserForCookieBegin(c, encrypted_cookie, use_cache, t) ==
    LET g == Get(c, encrypted_cookie, None, t)
    IN IF use_cache
       THEN IF g.value # None
            THEN [cache |-> g.cache, done |-> TRUE, value |-> g.value]
            ELSE [cache |-> g.cache, done |-> FALSE, value |-> None]
       ELSE [cache |-> c, done |-> FALSE, value |-> None]

\* the status tests in another order, >= 400 tried before 404 and 403, and an
\* upstream failure raised with the code of the others
InterpretCheckFirst(r) ==
    IF r = ConnectionError THEN HTTPError(500, "connect")
    ELSE IF r.status >= 500 THEN HTTPError(500, "upstream")
    ELSE IF r.status >= 400 THEN HTTPError(500, "check")
    ELSE IF r.status = 404 THEN Return(None)
    ELSE IF r.status = 403 THEN HTTPError(500, "permission")
    ELSE IF r.body = NotJSON THEN ValueError
    ELSE Return(r.body)

\* the response turned into the data to cache and return, or the exception
Interpret(r) ==
    IF r = ConnectionError THEN HTTPError(500, "connect")
    ELSE IF r.status = 404 THEN Return(None)
    ELSE IF r.status = 403 THEN HTTPError(500, "permission")
    ELSE IF r.status >= 500 THEN HTTPError(502, "upstream")
    ELSE IF r.status >= 400 THEN HTTPError(500, "check")
    ELSE IF r.body = NotJSON THEN ValueError
    ELSE Return(r.body)

\* user_for_cookie from the response on, storing None also when the Hub
\* refused or failed
UserForCookieEndCachesFailure(c, encrypted_cookie, r, t) ==
    LET o == Interpret(r)
    IN [cache |-> SetItem(c, encrypted_cookie,
                          IF o.kind = "return" THEN o.value ELSE None, t),
        outcome |-> o]

\* user_for_cookie from the response on, a 404 returned without being stored
UserForCookieEndSkips404(c, encrypted_cookie, r, t) ==
    LET o == Interpret(r)
    IN IF o.kind = "return" /\ o.value # None
       THEN [cache |-> SetItem(c, encrypted_cookie, o.value, t), outcome |-> o]
       ELSE [cache |-> c, outcome |-> o]

\* user_for_cookie from the response on, storing None for the cookie when the
\* body of the response cannot be decoded
UserForCookieEndStoresUndecoded(c, encrypted_cookie, r, t) ==
    LET o == Interpret(r)
    IN IF o.kind = "return"
       THEN [cache |-> SetItem(c, encrypted_cookie, o.value, t), outcome |-> o]
       ELSE IF o = ValueError
            THEN [cache |-> SetItem(c, encrypted_cookie, None, t), outcome |-> o]
            ELSE [cache |-> c, outcome |-> o]

\* user_for_cookie from the response on, returning what the cache held for
\* the cookie before the new data was stored
UserForCookieEndReturnsOld(c, encrypted_cookie, r, t) ==
    LET o == Interpret(r)
    IN IF o.kind = "return"
       THEN [cache |-> SetItem(c, encrypted_cookie, o.value, t),
             outcome |-> Return(Get(c, encrypted_cookie, None, t).value)]
       ELSE [cache |-> c, outcome |-> o]

\* user_for_cookie from the response on: the cache afterwards and the outcome
UserForCookieEnd(c, encrypted_cookie, r, t) ==
    LET o == Interpret(r)
    IN IF o.kind = "return"
       THEN [cache |-> SetItem(c, encrypted_cookie, o.value, t), outcome |-> o]
       ELSE [cache |-> c, outcome |-> o]

(* --------------------------- the handler ------------------------------ *)

\* handler.get_cookie(name): None, or the cookie's value
NoCookie == [present |-> FALSE]

Cookie(v) == [present |-> TRUE, value |-> v]

RequestCookies == {NoCookie} \cup {Cookie(v) : v \in CookieValues}

\* the attribute handler._cached_hub_user: missing, or set to a value
Unset == [set |-> FALSE]

Slot(v) == [set |-> TRUE, value |-> v]

\* a handler object as tornado makes it for one request
NewHandler(cookie) == [cookie |-> cookie, cached_hub_user |-> Unset]

\* the test of the cookie as "is not None": "" passes it
CookieTruthNotNone(cookie) == cookie.present

\* Python's truth value of the cookie: None and "" are false
CookieTruth(cookie) == cookie.present /\ cookie.value # ""

\* Python's truth value of a user model: None is false (so would {} be)
ModelTruth(user_model) == user_model # None

\* hub_users: None, or a set of names
UserSet(S) == [kind |-> "set", members |-> S]

AllowLists == {None, UserSet({}), UserSet({"nandy"})}

\* get_user without the early handler._cached_hub_user = None: the slot is
\* set only when user_for_cookie returns
GetUserBeginLateMemo(h, c, t) ==
    IF h.cached_hub_user.set
    THEN [handler |-> h, cache |-> c, done |-> TRUE,
          outcome |-> Return(h.cached_hub_user.value), verified |-> FALSE]
    ELSE IF CookieTruth(h.cookie)
         THEN LET b == UserForCookieBegin(c, h.cookie.value, TRUE, t)
              IN IF b.done
                 THEN [handler |-> [h EXCEPT !.cached_hub_user = Slot(b.value)],
                       cache |-> b.cache, done |-> TRUE,
                       outcome |-> Return(b.value), verified |-> TRUE]
                 ELSE [handler |-> h, cache |-> b.cache, done |-> FALSE,
                       outcome |-> NoOutcome, verified |-> TRUE]
         ELSE [handler |-> [h EXCEPT !.cached_hub_user = Slot(None)],
               cache |-> c, done |-> TRUE,
               outcome |-> Return(None), verified |-> FALSE]

\* get_user taking a missing cookie for the empty string and verifying it
GetUserBeginAbsentAsEmpty(h, c, t) ==
    IF h.cached_hub_user.set
    THEN [handler |-> h, cache |-> c, done |-> TRUE,
          outcome |-> Return(h.cached_hub_user.value), verified |-> FALSE]
    ELSE LET h1 == [h EXCEPT !.cached_hub_user = Slot(None)]
             v == IF h.cookie.present THEN h.cookie.value ELSE ""
         IN IF CookieTruth(h.cookie) \/ ~h.cookie.present
            THEN LET b == UserForCookieBegin(c, v, TRUE, t)
                 IN IF b.done
                    THEN [handler |-> [h1 EXCEPT !.cached_hub_user = Slot(b.value)],
                          cache |-> b.cache, done |-> TRUE,
                          outcome |-> Return(b.value), verified |-> TRUE]
                    ELSE [handler |-> h1, cache |-> b.cache, done |-> FALSE,
                          outcome |-> NoOutcome, verified |-> TRUE]
            ELSE [handler |-> h1, cache |-> c, done |-> TRUE,
                  outcome |-> Return(None), verified |-> FALSE]

\* get_user up to the Hub request: the handler and the cache afterwards,
\* whether the call ended, its outcome, whether it called user_for_cookie
GetUserBegin(h, c, t) ==
    IF h.cached_hub_user.set
    THEN [handler |-> h, cache |-> c, done |-> TRUE,
          outcome |-> Return(h.cached_hub_user.value), verified |-> FALSE]
    ELSE LET h1 == [h EXCEPT !.cached_hub_user = Slot(None)]
         IN IF CookieTruth(h.cookie)
            THEN LET b == UserForCookieBegin(c, h.cookie.value, TRUE, t)
                 IN IF b.done
                    THEN [handler |-> [h1 EXCEPT !.cached_hub_user = Slot(b.value)],
                          cache |-> b.cache, done |-> TRUE,
                          outcome |-> Return(b.value), verified |-> TRUE]
                    ELSE [handler |-> h1, cache |-> b.cache, done |-> FALSE,
                          outcome |-> NoOutcome, verified |-> TRUE]
            ELSE [handler |-> h1, cache |-> c, done |-> TRUE,
                  outcome |-> Return(None), verified |-> FALSE]

\* get_user from the response on, with the failure caught and None returned
GetUserEndSwallows(h, c, r, t) ==
    LET e == UserForCookieEnd(c, h.cookie.value, r, t)
    IN IF e.outcome.kind = "return"
       THEN [handler |-> [h EXCEPT !.cached_hub_user = Slot(e.outcome.value)],
             cache |-> e.cache, outcome |-> e.outcome]
       ELSE [handler |-> h, cache |-> e.cache, outcome |-> Return(None)]

\* get_user from the response on: an exception of user_for_cookie passes
\* through, and the slot keeps the None set before the call
GetUserEnd(h, c, r, t) ==
    LET e == UserForCookieEnd(c, h.cookie.value, r, t)
    IN IF e.outcome.kind = "return"
       THEN [handler |-> [h EXCEPT !.cached_hub_user = Slot(e.outcome.value)],
             cache |-> e.cache, outcome |-> e.outcome]
       ELSE [handler |-> h, cache |-> e.cache, outcome |-> e.outcome]

\* check_hub_user treating an empty set like None
CheckHubUserEmptyAsNone(users, user_model) ==
    IF users = None \/ users = UserSet({})
    THEN Return(user_model)
    ELSE IF user_model = None
         THEN TypeError
         ELSE IF user_model.name \in users.members
              THEN Return(user_model)
              ELSE Return(None)

\* HubAuthenticated.check_hub_user
CheckHubUser(users, user_model) ==
    IF users = None
    THEN Return(user_model)
    ELSE IF user_model = None
         THEN TypeError
         ELSE IF user_model.name \in users.members
              THEN Return(user_model)
              ELSE Return(None)

\* get_current_user handing back what get_user returned, unchecked
GetCurrentUserEndNoPolicy(users, o) == o

\* get_current_user after get_user: o is get_user's outcome
GetCurrentUserEnd(users, o) ==
    IF o.kind # "return"
    THEN o
    ELSE IF ~ModelTruth(o.value)
         THEN Return(None)
         ELSE CheckHubUser(users, o.value)

(* ------------------------------- state -------------------------------- *)

VARIABLES
    now,            \* time.monotonic()
    cookie_cache,   \* HubAuth.cookie_cache, an _ExpiringDict
    hub_users,      \* the handler class's hub_users
    handler,        \* per task: the handler object of the request it serves
    pc,             \* per task: "idle", or "waiting" for the Hub's response
    call,           \* per task: the method under way, or the last one called
    hub_request,    \* per task: the request to the Hub that is in flight
    ret,            \* per task: the outcome of that call, once it has ended
    request_obs,    \* per task, observed: what the request's verification did
    last_set,       \* per key, observed: the last value stored directly and when
    conn_failed,    \* per key, observed: the last verification could not connect
    cache_ret,      \* the last direct operation on the cache and its answer
    hub_answer      \* the Hub's standing answer, where it is taken to have one

vars == <<now, cookie_cache, hub_users, handler, pc, call, hub_request, ret,
          request_obs, last_set, conn_failed, cache_ret, hub_answer>>

\* the entry of key is in the cache and not over age at time t, as a reader
\* of the cache sees it
Live(c, key, t) ==
    /\ key \in DOMAIN c.values
    /\ (c.max_age > 0 => t - c.timestamps[key] <= c.max_age)

\* no request to the Hub is in flight
NoRequest == [sent |-> FALSE]

\* the request in flight: the cookie value it asks about and, observed,
\* whether the call changed the cache before sending it
HubRequest(cookie, changed) == [sent |-> TRUE, cookie |-> cookie, changed |-> changed]

NotSet == [kind |-> "NotSet"]

Stored(value, t) == [kind |-> "Stored", value |-> value, at |-> t]

NewObs == [verify_calls |-> 0, failure |-> NoOutcome]

\* the Hub is not taken to have a standing answer
NoAnswer == [error |-> "NoAnswer"]

\* the state after construction, the Hub's standing answer being answer
InitState(max_age, users, answer) ==
    /\ now = 0
    /\ cookie_cache = ExpiringDict(max_age)
    /\ hub_users = users
    /\ handler = [t \in Tasks |-> NewHandler(NoCookie)]
    /\ pc = [t \in Tasks |-> "idle"]
    /\ call = [t \in Tasks |-> "none"]
    /\ hub_request = [t \in Tasks |-> NoRequest]
    /\ ret = [t \in Tasks |-> NoOutcome]
    /\ request_obs = [t \in Tasks |-> NewObs]
    /\ last_set = [k \in CookieValues |-> NotSet]
    /\ conn_failed = [k \in CookieValues |-> FALSE]
    /\ cache_ret = [op |-> "none"]
    /\ hub_answer = answer

InitWith(max_age, users) == InitState(max_age, users, NoAnswer)

Init == \E m \in 0..MaxAgeBound, u \in AllowLists : InitWith(m, u)

(* ------------------------------ the clock ------------------------------ *)

Tick ==
    /\ now < MaxTime
    /\ now' = now + 1
    /\ UNCHANGED <<hub_answer, cookie_cache, hub_users, handler, pc, call, hub_request,
                   ret, request_obs, last_set, conn_failed, cache_ret>>

(* ------------------------ the cache, used directly --------------------- *)

CacheRet(op, key, found, value, expect) ==
    [op |-> op, key |-> key, found |-> found, value |-> value, at |-> now,
     expect |-> expect]

\* cookie_cache[key] = value
CacheSetItem(key, value) ==
    /\ cookie_cache' = SetItem(cookie_cache, key, value, now)
    /\ last_set' = [last_set EXCEPT ![key] = Stored(value, now)]
    /\ cache_ret' = CacheRet("__setitem__", key, TRUE, value, Stored(value, now))
    /\ UNCHANGED <<hub_answer, now, hub_users, handler, pc, call, hub_request, ret,
                   request_obs, conn_failed>>

\* cookie_cache[key]
CacheGetItem(key) ==
    LET g == GetItem(cookie_cache, key, now)
    IN /\ cookie_cache' = g.cache
       /\ cache_ret' = CacheRet("__getitem__", key, g.found, g.value, last_set[key])
       /\ UNCHANGED <<hub_answer, now, hub_users, handler, pc, call, hub_request, ret,
                      request_obs, last_set, conn_failed>>

\* cookie_cache.get(key): the default is None
CacheGet(key) ==
    LET g == Get(cookie_cache, key, None, now)
    IN /\ cookie_cache' = g.cache
       /\ cache_ret' = CacheRet("get", key, TRUE, g.value, last_set[key])
       /\ UNCHANGED <<hub_answer, now, hub_users, handler, pc, call, hub_request, ret,
                      request_obs, last_set, conn_failed>>

\* key in cookie_cache
CacheContains(key) ==
    LET g == Contains(cookie_cache, key, now)
    IN /\ cookie_cache' = g.cache
       /\ cache_ret' = CacheRet("__contains__", key, g.found, None, last_set[key])
       /\ UNCHANGED <<hub_answer, now, hub_users, handler, pc, call, hub_request, ret,
                      request_obs, last_set, conn_failed>>

(* ---------------------- user_for_cookie, called directly --------------- *)

\* hub_auth.user_for_cookie(cookie, use_cache), up to its return from the
\* cache or to the request it sends
UserForCookieCall(t, cookie, use_cache) ==
    LET b == UserForCookieBegin(cookie_cache, cookie, use_cache, now)
    IN /\ pc[t] = "idle"
       /\ cookie_cache' = b.cache
       /\ pc' = [pc EXCEPT ![t] = IF b.done THEN "idle" ELSE "waiting"]
       /\ call' = [call EXCEPT ![t] = "user_for_cookie"]
       /\ hub_request' = [hub_request EXCEPT ![t] =
              IF b.done THEN NoRequest
              ELSE HubRequest(cookie, b.cache # cookie_cache)]
       /\ ret' = [ret EXCEPT ![t] = IF b.done THEN Return(b.value) ELSE NoOutcome]
       /\ conn_failed' = IF b.done
                         THEN [conn_failed EXCEPT ![cookie] = FALSE]
                         ELSE conn_failed
       /\ UNCHANGED <<hub_answer, now, hub_users, handler, request_obs, last_set, cache_ret>>

\* what the end of a verification of cookie with response r leaves observed:
\* the verification could not connect and the cookie has no live entry
ConnFailedAfter(cookie, r) ==
    [conn_failed EXCEPT ![cookie] =
        r = ConnectionError /\ ~Live(cookie_cache, cookie, now)]

\* the Hub's response r reaches the user_for_cookie call of task t
UserForCookieResponse(t, r) ==
    LET e == UserForCookieEnd(cookie_cache, hub_request[t].cookie, r, now)
    IN /\ pc[t] = "waiting"
       /\ call[t] = "user_for_cookie"
       /\ cookie_cache' = e.cache
       /\ pc' = [pc EXCEPT ![t] = "idle"]
       /\ hub_request' = [hub_request EXCEPT ![t] = NoRequest]
       /\ ret' = [ret EXCEPT ![t] = e.outcome]
       /\ conn_failed' = ConnFailedAfter(hub_request[t].cookie, r)
       /\ UNCHANGED <<hub_answer, now, hub_users, handler, call, request_obs, last_set,
                      cache_ret>>

(* --------------------------- the handler's calls ----------------------- *)

\* tornado makes a new handler for the next request of task t
NewRequest(t, cookie) ==
    /\ pc[t] = "idle"
    /\ handler' = [handler EXCEPT ![t] = NewHandler(cookie)]
    /\ call' = [call EXCEPT ![t] = "none"]
    /\ ret' = [ret EXCEPT ![t] = NoOutcome]
    /\ request_obs' = [request_obs EXCEPT ![t] = NewObs]
    /\ UNCHANGED <<hub_answer, now, cookie_cache, hub_users, pc, hub_request, last_set,
                   conn_failed, cache_ret>>

\* the value of the request's cookie, "" when it has none
CookieValue(h) == IF h.cookie.present THEN h.cookie.value ELSE ""

\* get_user (op = "get_user") or get_current_user on the handler of task t,
\* up to its return or to the request it sends
HandlerCall(t, op) ==
    LET g == GetUserBegin(handler[t], cookie_cache, now)
        cookie == CookieValue(handler[t])
        o == IF op = "get_current_user"
             THEN GetCurrentUserEnd(hub_users, g.outcome)
             ELSE g.outcome
    IN /\ pc[t] = "idle"
       /\ handler' = [handler EXCEPT ![t] = g.handler]
       /\ cookie_cache' = g.cache
       /\ pc' = [pc EXCEPT ![t] = IF g.done THEN "idle" ELSE "waiting"]
       /\ call' = [call EXCEPT ![t] = op]
       /\ hub_request' = [hub_request EXCEPT ![t] =
              IF g.done THEN NoRequest
              ELSE HubRequest(cookie, g.cache # cookie_cache)]
       /\ ret' = [ret EXCEPT ![t] = IF g.done THEN o ELSE NoOutcome]
       /\ request_obs' = [request_obs EXCEPT ![t].verify_calls =
              IF g.verified THEN @ + 1 ELSE @]
       /\ conn_failed' = IF g.done /\ g.verified
                         THEN [conn_failed EXCEPT ![cookie] = FALSE]
                         ELSE conn_failed
       /\ UNCHANGED <<hub_answer, now, hub_users, last_set, cache_ret>>

GetUserCall(t) == HandlerCall(t, "get_user")

GetCurrentUserCall(t) == HandlerCall(t, "get_current_user")

\* the Hub's response r reaches the get_user or get_current_user of task t
HandlerResponse(t, r) ==
    LET g == GetUserEnd(handler[t], cookie_cache, r, now)
        o == IF call[t] = "get_current_user"
             THEN GetCurrentUserEnd(hub_users, g.outcome)
             ELSE g.outcome
    IN /\ pc[t] = "waiting"
       /\ call[t] \in {"get_user", "get_current_user"}
       /\ handler' = [handler EXCEPT ![t] = g.handler]
       /\ cookie_cache' = g.cache
       /\ pc' = [pc EXCEPT ![t] = "idle"]
       /\ hub_request' = [hub_request EXCEPT ![t] = NoRequest]
       /\ ret' = [ret EXCEPT ![t] = o]
       /\ request_obs' = [request_obs EXCEPT ![t].failure =
              IF Interpret(r).kind = "raise" THEN Interpret(r) ELSE @]
       /\ conn_failed' = ConnFailedAfter(hub_request[t].cookie, r)
       /\ UNCHANGED <<hub_answer, now, hub_users, call, last_set, cache_ret>>

\* handler.check_hub_user(user_model), called on its own
CheckHubUserCall(t, user_model) ==
    /\ pc[t] = "idle"
    /\ call' = [call EXCEPT ![t] = "check_hub_user"]
    /\ ret' = [ret EXCEPT ![t] = CheckHubUser(hub_users, user_model)]
    /\ UNCHANGED <<hub_answer, now, cookie_cache, hub_users, handler, pc, hub_request,
                   request_obs, last_set, conn_failed, cache_ret>>

(* --------------------------- specifications ---------------------------- *)

Values == UserModels \cup {None}

\* the cache alone, used as a dictionary
InitCache == \E m \in 0..MaxAgeBound : InitWith(m, None)

NextCache ==
    \/ Tick
    \/ \E k \in CookieValues, v \in Values : CacheSetItem(k, v)
    \/ \E k \in CookieValues : CacheGetItem(k)
    \/ \E k \in CookieValues : CacheGet(k)
    \/ \E k \in CookieValues : CacheContains(k)

SpecCache == InitCache /\ [][NextCache]_vars

\* tasks calling user_for_cookie
NextVerify ==
    \/ Tick
    \/ \E t \in Tasks, k \in CookieValues, u \in BOOLEAN : UserForCookieCall(t, k, u)
    \/ \E t \in Tasks, r \in Responses : UserForCookieResponse(t, r)

SpecVerify == InitCache /\ [][NextVerify]_vars

\* tasks serving requests through the handler
Next ==
    \/ Tick
    \/ \E t \in Tasks, c \in RequestCookies : NewRequest(t, c)
    \/ \E t \in Tasks : GetUserCall(t)
    \/ \E t \in Tasks : GetCurrentUserCall(t)
    \/ \E t \in Tasks, r \in Responses : HandlerResponse(t, r)

Spec == Init /\ [][Next]_vars

\* the policy check alone, applied to user models on the requests' handlers
NextPolicy ==
    \/ \E t \in Tasks, c \in RequestCookies : NewRequest(t, c)
    \/ \E t \in Tasks, m \in UserModels : CheckHubUserCall(t, m)

SpecPolicy == Init /\ [][NextPolicy]_vars

\* the cookie that the concurrent requests present
SameCookie == "abc"

\* the Hub has one answer for that cookie and keeps to it
InitConcurrent ==
    \E m \in 0..MaxAgeBound, a \in Responses : InitState(m, None, a)

\* tasks calling user_for_cookie with the same cookie, the Hub answering each
\* request with its standing answer
NextConcurrent ==
    \/ Tick
    \/ \E t \in Tasks, u \in BOOLEAN : UserForCookieCall(t, SameCookie, u)
    \/ \E t \in Tasks : UserForCookieResponse(t, hub_answer)

SpecConcurrent == InitConcurrent /\ [][NextConcurrent]_vars

\* the task that uses the cache both directly and through user_for_cookie
CacheUser == "t1"

\* the cache as the program uses it: written by user_for_cookie, the one place
\* that stores into it, and read by user_for_cookie and by direct lookups
NextKeys ==
    \/ Tick
    \/ \E k \in CookieValues : CacheGetItem(k)
    \/ \E k \in CookieValues : CacheGet(k)
    \/ \E k \in CookieValues : CacheContains(k)
    \/ \E k \in CookieValues, u \in BOOLEAN : UserForCookieCall(CacheUser, k, u)
    \/ \E r \in Responses : UserForCookieResponse(CacheUser, r)

SpecKeys == InitCache /\ [][NextKeys]_vars

(* ------------------------------- claims -------------------------------- *)

\* the step is the end, with response r, of a user_for_cookie call of task t
\* made directly
VerifyEnds(t, r) == UserForCookieResponse(t, r)

\* the Hub refused this service's token: what a 403 makes user_for_cookie raise
PermissionFailure == HTTPError(500, "permission")

\* the entry of key in cache c: what is stored and when
Entry(c, key) == [value |-> c.values[key], at |-> c.timestamps[key]]

\* C1: user_for_cookie(cookie, use_cache=True) sends no request to the Hub when
\* the cache holds a live entry for the cookie, be it a user model or a cached
\* None, and returns that entry's value; it sends exactly one request otherwise.
C1_CacheHitNoNetwork ==
    [][\A t \in Tasks, k \in CookieValues :
          UserForCookieCall(t, k, TRUE) =>
              IF Live(cookie_cache, k, now)
              THEN /\ pc'[t] = "idle"
                   /\ hub_request'[t] = NoRequest
                   /\ ret'[t] = Return(cookie_cache.values[k])
              ELSE /\ pc'[t] = "waiting"
                   /\ hub_request'[t].sent]_vars

\* C2, as claimed: a user_for_cookie call that ends in a failure leaves the
\* cache, values and timestamps, exactly as it was before the call: neither its
\* lookup before the request nor its end changes any key.
C2_FailureLeavesCacheAsItWas ==
    [][\A t \in Tasks, r \in Responses :
          (VerifyEnds(t, r) /\ Interpret(r).kind = "raise") =>
              /\ ~hub_request[t].changed
              /\ cookie_cache' = cookie_cache]_vars

\* C2, amended: a user_for_cookie call that ends in a failure stores nothing.
\* Its end leaves the cache exactly as it was, and its lookup before the
\* request leaves the cache as it was or, with use_cache true and the cookie's
\* own entry over age, removes that one entry and nothing else.
C2_FailureStoresNothing ==
    [][/\ \A t \in Tasks, r \in Responses :
            (VerifyEnds(t, r) /\ Interpret(r).kind = "raise") =>
                cookie_cache' = cookie_cache
       /\ \A t \in Tasks, k \in CookieValues, u \in BOOLEAN :
            UserForCookieCall(t, k, u) =>
                \/ cookie_cache' = cookie_cache
                \/ /\ u
                   /\ k \in DOMAIN cookie_cache.values
                   /\ ~Live(cookie_cache, k, now)
                   /\ cookie_cache' =
                        [cookie_cache EXCEPT
                            !.values = DictPop(cookie_cache.values, k),
                            !.timestamps = DictPop(cookie_cache.timestamps, k)]
      ]_vars

\* a call has just failed on a permission error with entries of earlier
\* verifications still in the cache
C2_Witness ==
    \E t \in Tasks :
        /\ pc[t] = "idle"
        /\ call[t] = "user_for_cookie"
        /\ ret[t] = PermissionFailure
        /\ \E k \in DOMAIN cookie_cache.values : cookie_cache.timestamps[k] < now

\* the step is the end, with response r, of the get_user or get_current_user
\* call of task t
HandlerEnds(t, r) == HandlerResponse(t, r)

\* C3, as claimed: once the Hub has answered 403 for the cookie of a request,
\* no get_user or get_current_user call on that request, first or repeated,
\* returns None.
C3_NeverDowngraded ==
    \A t \in Tasks :
        request_obs[t].failure = PermissionFailure =>
            ~(/\ pc[t] = "idle"
              /\ call[t] \in {"get_user", "get_current_user"}
              /\ ret[t] = Return(None))

\* C3, amended: the get_user or get_current_user call whose verification the
\* Hub answers with 403 raises the failure and returns nothing; every later
\* call on the same request returns the None that the slot was given before
\* the verification, without asking the Hub again.
C3_FirstCallPropagates ==
    [][/\ \A t \in Tasks, r \in Responses :
            (HandlerEnds(t, r) /\ r # ConnectionError /\ r.status = 403) =>
                /\ ret'[t] = PermissionFailure
                /\ handler'[t].cached_hub_user = Slot(None)
       /\ \A t \in Tasks :
            (/\ request_obs[t].failure = PermissionFailure
             /\ (GetUserCall(t) \/ GetCurrentUserCall(t))) =>
                /\ ret'[t] = Return(None)
                /\ pc'[t] = "idle"
                /\ hub_request'[t] = NoRequest
                /\ cookie_cache' = cookie_cache
      ]_vars

\* after a 403 for its cookie, the request's repeated get_user has returned None
C3_Witness ==
    \E t \in Tasks :
        /\ request_obs[t].failure = PermissionFailure
        /\ pc[t] = "idle"
        /\ call[t] = "get_user"
        /\ ret[t] = Return(None)

\* C4: with max_age > 0, a value set at time T and not set again is returned by
\* cache[key] and cache.get(key) at every time t with T <= t <= T + max_age,
\* and reported absent (KeyError, the default) at every t > T + max_age.
C4_ExpiresAfterMaxAge ==
    (/\ cookie_cache.max_age > 0
     /\ cache_ret.op \in {"__getitem__", "get"}
     /\ cache_ret.expect.kind = "Stored") =>
        IF cache_ret.at <= cache_ret.expect.at + cookie_cache.max_age
        THEN /\ cache_ret.found
             /\ cache_ret.value = cache_ret.expect.value
        ELSE /\ cache_ret.op = "__getitem__" => ~cache_ret.found
             /\ cache_ret.op = "get" => cache_ret.value = None
             /\ cache_ret.key \notin DOMAIN cookie_cache.values

\* a lookup after T + max_age has found the key absent
C4_Witness ==
    /\ cookie_cache.max_age > 0
    /\ cache_ret.op = "__getitem__"
    /\ cache_ret.expect.kind = "Stored"
    /\ cache_ret.expect.value # None
    /\ cache_ret.at > cache_ret.expect.at + cookie_cache.max_age
    /\ ~cache_ret.found

\* C5: with max_age = 0, a value once set for a key stays stored with its
\* timestamp, and every later get, lookup and contains on the key finds it,
\* however much time passes, until the key is set again.
C5_NeverExpiresAtZero ==
    cookie_cache.max_age = 0 =>
        /\ \A k \in CookieValues :
              last_set[k].kind = "Stored" =>
                  /\ k \in DOMAIN cookie_cache.values
                  /\ Entry(cookie_cache, k) =
                        [value |-> last_set[k].value, at |-> last_set[k].at]
        /\ (cache_ret.op \in {"__getitem__", "get", "__contains__"}
              /\ cache_ret.expect.kind = "Stored") =>
                  /\ cache_ret.found
                  /\ cache_ret.op # "__contains__" =>
                        cache_ret.value = cache_ret.expect.value

\* with max_age = 0, contains has found a key two ticks after it was set
C5_Witness ==
    /\ cookie_cache.max_age = 0
    /\ cache_ret.op = "__contains__"
    /\ cache_ret.expect.kind = "Stored"
    /\ cache_ret.at >= cache_ret.expect.at + 2
    /\ cache_ret.found

\* hub_users is an empty set
EmptyList(users) == users # None /\ users.members = {}

\* the allow-list lets the user model through
Permitted(users, user_model) ==
    users = None \/ user_model.name \in users.members

\* C6, as claimed: check_hub_user returns a user model unchanged when
\* hub_users is empty or unset; when hub_users is set, it returns the model if
\* its name is in the set and None otherwise.
C6_EmptyOrUnsetPassesAll ==
    [][\A t \in Tasks, m \in UserModels :
          CheckHubUserCall(t, m) =>
              ret'[t] = IF hub_users = None \/ EmptyList(hub_users)
                        THEN Return(m)
                        ELSE IF m.name \in hub_users.members
                             THEN Return(m)
                             ELSE Return(None)]_vars

\* C6, amended: check_hub_user returns a user model unchanged when hub_users
\* is unset (None); when hub_users is set, the empty set included, it returns
\* the model if its name is in the set and None otherwise, so that an empty
\* set lets nobody through.
C6_UnsetPassesAll ==
    [][\A t \in Tasks, m \in UserModels :
          CheckHubUserCall(t, m) =>
              /\ ret'[t] = IF Permitted(hub_users, m) THEN Return(m) ELSE Return(None)
              /\ EmptyList(hub_users) => ret'[t] = Return(None)]_vars

\* with an empty hub_users, check_hub_user has turned a user model down
C6_Witness ==
    \E t \in Tasks :
        /\ EmptyList(hub_users)
        /\ call[t] = "check_hub_user"
        /\ ret[t] = Return(None)

\* the step ends a get_current_user call of task t with a return
CurrentUserReturns(t) ==
    /\ \/ GetCurrentUserCall(t)
       \/ call[t] = "get_current_user" /\ \E r \in Responses : HandlerEnds(t, r)
    /\ pc'[t] = "idle"
    /\ ret'[t].kind = "return"

\* C7: get_current_user returns check_hub_user of what get_user resolves for
\* the request: the user model when the Hub's verdict for the request's cookie
\* is a user model and hub_users is unset or holds its name, None when the
\* model is turned down and None when the request is not authenticated.
C7_CurrentUserIsPolicyOfUser ==
    [][/\ \A t \in Tasks :
            CurrentUserReturns(t) =>
                LET user == handler'[t].cached_hub_user.value
                IN ret'[t] = IF user # None /\ Permitted(hub_users, user)
                             THEN Return(user)
                             ELSE Return(None)
       /\ \A t \in Tasks, r \in Responses :
            (HandlerEnds(t, r) /\ r # ConnectionError) =>
                /\ (r.status = 200 /\ r.body \in UserModels) =>
                      handler'[t].cached_hub_user = Slot(r.body)
                /\ r.status = 404 => handler'[t].cached_hub_user = Slot(None)
                /\ r.status \notin {200, 202, 404} => ret'[t].kind = "raise"
       /\ \A t \in Tasks :
            (/\ GetCurrentUserCall(t)
             /\ ~handler[t].cached_hub_user.set
             /\ pc'[t] = "idle") =>
                handler'[t].cached_hub_user =
                    IF /\ CookieTruth(handler[t].cookie)
                       /\ Live(cookie_cache, handler[t].cookie.value, now)
                    THEN Slot(cookie_cache.values[handler[t].cookie.value])
                    ELSE Slot(None)
      ]_vars

\* with hub_users unset, get_current_user has returned the model named nandy
\* that the Hub gave for the request's cookie
C7_Witness ==
    \E t \in Tasks :
        /\ hub_users = None
        /\ pc[t] = "idle"
        /\ call[t] = "get_current_user"
        /\ CookieTruth(handler[t].cookie)
        /\ request_obs[t].verify_calls = 1
        /\ ret[t] = Return(UserModel("nandy"))

\* C8: on one handler at most one user_for_cookie call is ever made, whatever
\* the first get_user ended in; once the slot is set, get_user returns the
\* slot's value with no lookup in the cache and no request to the Hub.
C8_AtMostOneLookup ==
    [][\A t \in Tasks :
          /\ request_obs'[t].verify_calls <= 1
          /\ (handler[t].cached_hub_user.set /\ GetUserCall(t)) =>
                /\ ret'[t] = Return(handler[t].cached_hub_user.value)
                /\ pc'[t] = "idle"
                /\ hub_request'[t] = NoRequest
                /\ request_obs'[t] = request_obs[t]
                /\ cookie_cache' = cookie_cache
                /\ handler'[t] = handler[t]]_vars

\* the request's verification failed, and a later get_user has returned the
\* slot's None with still one user_for_cookie call made
C8_Witness ==
    \E t \in Tasks :
        /\ request_obs[t].verify_calls = 1
        /\ request_obs[t].failure # NoOutcome
        /\ pc[t] = "idle"
        /\ call[t] = "get_user"
        /\ ret[t] = Return(None)

\* C9: after a user_for_cookie call that could not connect, for a cookie with
\* no live entry, the next user_for_cookie call with that cookie and
\* use_cache=True sends a new request to the Hub.
C9_RetryAfterConnectionFailure ==
    [][\A t \in Tasks, k \in CookieValues :
          (conn_failed[k] /\ UserForCookieCall(t, k, TRUE)) =>
              /\ pc'[t] = "waiting"
              /\ hub_request'[t].sent
              /\ hub_request'[t].cookie = k
              /\ ret'[t] = NoOutcome]_vars

\* a task's verification of a cookie could not connect, and its next call
\* with that cookie is waiting for the Hub (the other task has made no call)
C9_Witness ==
    \E t \in Tasks, k \in CookieValues :
        /\ conn_failed[k]
        /\ pc[t] = "waiting"
        /\ call[t] = "user_for_cookie"
        /\ hub_request[t].cookie = k
        /\ \A o \in Tasks \ {t} : call[o] = "none"

\* C10: a user_for_cookie call that receives 404 returns None and leaves the
\* cache holding None for the cookie, stamped with the current time; one that
\* receives 200 with the body {"name": n} returns the model named n and leaves
\* the cache holding that model for the cookie, stamped with the current time.
C10_VerdictCached ==
    [][\A t \in Tasks, r \in Responses :
          (VerifyEnds(t, r) /\ r # ConnectionError) =>
              LET k == hub_request[t].cookie
              IN /\ r.status = 404 =>
                      /\ ret'[t] = Return(None)
                      /\ k \in DOMAIN cookie_cache'.values
                      /\ Entry(cookie_cache', k) = [value |-> None, at |-> now]
                 /\ (r.status = 200 /\ r.body \in UserModels) =>
                      /\ ret'[t] = Return(r.body)
                      /\ ret'[t].value.name = r.body.name
                      /\ k \in DOMAIN cookie_cache'.values
                      /\ Entry(cookie_cache', k) = [value |-> r.body, at |-> now]
      ]_vars

\* a call has returned the None of a 404, stored for a cookie at the current
\* time, later than the start of the clock
C10_Witness ==
    \E t \in Tasks, k \in CookieValues :
        /\ pc[t] = "idle"
        /\ call[t] = "user_for_cookie"
        /\ ret[t] = Return(None)
        /\ now > 0
        /\ k \in DOMAIN cookie_cache.values
        /\ Entry(cookie_cache, k) = [value |-> None, at |-> now]

\* C11: on a request without the cookie, get_current_user returns None, sends
\* no request to the Hub and does not look the cache up, whatever hub_users
\* and the cache are; the request's slot holds None afterwards.
C11_NoCookieNoLookup ==
    [][\A t \in Tasks :
          (GetCurrentUserCall(t) /\ ~handler[t].cookie.present) =>
              /\ ret'[t] = Return(None)
              /\ pc'[t] = "idle"
              /\ hub_request'[t] = NoRequest
              /\ request_obs'[t].verify_calls = 0
              /\ cookie_cache' = cookie_cache
              /\ handler'[t].cached_hub_user = Slot(None)]_vars

\* with a list of users set and entries in the cache, one of them over age,
\* get_current_user has returned None on a request without the cookie
C11_Witness ==
    \E t \in Tasks :
        /\ ~handler[t].cookie.present
        /\ pc[t] = "idle"
        /\ call[t] = "get_current_user"
        /\ ret[t] = Return(None)
        /\ handler[t].cached_hub_user = Slot(None)
        /\ hub_users # None
        /\ \E k \in DOMAIN cookie_cache.values : ~Live(cookie_cache, k, now)

\* the four failures of user_for_cookie, as tornado HTTPErrors
ConnectFailure == HTTPError(500, "connect")

UpstreamFailure == HTTPError(502, "upstream")

CheckFailure == HTTPError(500, "check")

\* C12: the outcome of user_for_cookie follows from the response: no connection
\* raises the connect failure, 404 returns None, 403 raises the permission
\* failure, a status >= 500 raises the upstream failure, whose code differs
\* from the code of the other three, any other status in 400..499 raises the
\* check failure, and 200 returns the decoded user model; 403 and 404 never
\* raise the check failure.
C12_OutcomeByStatus ==
    [][\A t \in Tasks, r \in Responses :
          VerifyEnds(t, r) =>
              IF r = ConnectionError
              THEN ret'[t] = ConnectFailure
              ELSE /\ r.status = 404 => ret'[t] = Return(None)
                   /\ r.status = 403 => ret'[t] = PermissionFailure
                   /\ r.status >= 500 =>
                        /\ ret'[t] = UpstreamFailure
                        /\ ret'[t].code \notin {ConnectFailure.code,
                                                PermissionFailure.code,
                                                CheckFailure.code}
                   /\ (r.status \in 400..499 /\ r.status \notin {403, 404}) =>
                        ret'[t] = CheckFailure
                   /\ (r.status = 200 /\ r.body \in UserModels) =>
                        ret'[t] = Return(r.body)
                   /\ r.status \in {403, 404} => ret'[t] # CheckFailure]_vars

\* one call has raised the upstream failure and another the check failure
C12_Witness ==
    \E t, o \in Tasks :
        /\ call[t] = "user_for_cookie" /\ pc[t] = "idle"
        /\ call[o] = "user_for_cookie" /\ pc[o] = "idle"
        /\ ret[t] = UpstreamFailure
        /\ ret[o] = CheckFailure

\* the step gives key an entry it did not have, or changes the one it had
EntryWritten(key) ==
    /\ key \in DOMAIN cookie_cache'.values
    /\ \/ key \notin DOMAIN cookie_cache.values
       \/ Entry(cookie_cache', key) # Entry(cookie_cache, key)

\* C13, as claimed: every entry of the cache comes from the end of a
\* verification of its key, and whenever such an end writes the entry the Hub
\* has answered with 200, the entry being the decoded body, or with 404, the
\* entry being None; no other status and no failed call gives a key an entry.
C13_OnlyFrom200Or404 ==
    [][/\ \A k \in CookieValues :
            EntryWritten(k) =>
                \E t \in Tasks, r \in Responses :
                    VerifyEnds(t, r) /\ hub_request[t].cookie = k
       /\ \A t \in Tasks, r \in Responses \ {ConnectionError} :
            (VerifyEnds(t, r) /\ EntryWritten(hub_request[t].cookie)) =>
                \/ /\ r.status = 200
                   /\ r.body \in UserModels
                   /\ cookie_cache'.values[hub_request[t].cookie] = r.body
                \/ /\ r.status = 404
                   /\ cookie_cache'.values[hub_request[t].cookie] = None
      ]_vars

\* C13, amended: every entry of the cache comes from the end of a verification
\* of its key, and whenever such an end writes the entry the Hub has answered
\* with a status below 400, 200 or another, and a body that decodes, the entry
\* being the decoded body, or with 404, the entry being None; the entry is
\* stamped with the time of that end. A call that fails (no connection, 403,
\* another status >= 400, a body that does not decode) or that has not ended
\* gives no key an entry.
C13_OnlyFromCompletedCalls ==
    [][/\ \A k \in CookieValues :
            EntryWritten(k) =>
                \E t \in Tasks, r \in Responses :
                    VerifyEnds(t, r) /\ hub_request[t].cookie = k
       /\ \A t \in Tasks :
            (VerifyEnds(t, ConnectionError) /\ hub_request[t].cookie \in CookieValues) =>
                ~EntryWritten(hub_request[t].cookie)
       /\ \A t \in Tasks, r \in Responses \ {ConnectionError} :
            (VerifyEnds(t, r) /\ EntryWritten(hub_request[t].cookie)) =>
                /\ ret'[t].kind = "return"
                /\ cookie_cache'.timestamps[hub_request[t].cookie] = now
                /\ \/ /\ r.status < 400
                      /\ r.body \in UserModels
                      /\ cookie_cache'.values[hub_request[t].cookie] = r.body
                   \/ /\ r.status = 404
                      /\ cookie_cache'.values[hub_request[t].cookie] = None
      ]_vars

\* the cache holds a user model for one cookie and None for the other, and a
\* call for a cookie that has an entry has just failed on an undecodable body
C13_Witness ==
    \E t \in Tasks, k, j \in CookieValues :
        /\ k \in DOMAIN cookie_cache.values
        /\ j \in DOMAIN cookie_cache.values
        /\ cookie_cache.values[k] \in UserModels
        /\ cookie_cache.values[j] = None
        /\ pc[t] = "idle"
        /\ call[t] = "user_for_cookie"
        /\ ret[t] = ValueError

\* C14: with max_age > 0, what user_for_cookie(cookie, use_cache=True) returns
\* was stored from a response of the Hub at most max_age before the return: a
\* return from the cache gives an entry of age <= max_age, a return after a
\* request gives what the response of that moment says, and a call that finds
\* the entry over age removes it and asks the Hub again.
C14_NoStaleVerdict ==
    [][/\ \A t \in Tasks, k \in CookieValues :
            (cookie_cache.max_age > 0 /\ UserForCookieCall(t, k, TRUE)) =>
                /\ pc'[t] = "idle" =>
                      /\ k \in DOMAIN cookie_cache.values
                      /\ now - cookie_cache.timestamps[k] <= cookie_cache.max_age
                      /\ ret'[t] = Return(cookie_cache.values[k])
                /\ (/\ k \in DOMAIN cookie_cache.values
                    /\ now - cookie_cache.timestamps[k] > cookie_cache.max_age) =>
                      /\ pc'[t] = "waiting"
                      /\ hub_request'[t] = HubRequest(k, TRUE)
                      /\ ret'[t] = NoOutcome
                      /\ k \notin DOMAIN cookie_cache'.values
       /\ \A t \in Tasks, r \in Responses :
            (cookie_cache.max_age > 0 /\ VerifyEnds(t, r) /\ ret'[t].kind = "return") =>
                /\ ret'[t] = Interpret(r)
                /\ Entry(cookie_cache', hub_request[t].cookie) =
                      [value |-> ret'[t].value, at |-> now]
      ]_vars

\* a call has found its cookie's entry over age, removed it, and is waiting
\* for the Hub's answer to its new request
C14_Witness ==
    \E t \in Tasks, k \in CookieValues :
        /\ cookie_cache.max_age > 0
        /\ now > cookie_cache.max_age
        /\ pc[t] = "waiting"
        /\ call[t] = "user_for_cookie"
        /\ hub_request[t] = HubRequest(k, TRUE)
        /\ k \notin DOMAIN cookie_cache.values

\* C15: user_for_cookie(cookie, use_cache=False) always sends one request to
\* the Hub, also when the cache holds a live entry for the cookie, and does not
\* touch the cache before the response; a 200 or 404 response then replaces
\* the cookie's entry by the new verdict stamped with the current time, and a
\* failure leaves the entry and its timestamp as they were.
C15_NoCacheAlwaysAsks ==
    [][/\ \A t \in Tasks, k \in CookieValues :
            UserForCookieCall(t, k, FALSE) =>
                /\ pc'[t] = "waiting"
                /\ hub_request'[t] = HubRequest(k, FALSE)
                /\ ret'[t] = NoOutcome
                /\ cookie_cache' = cookie_cache
       /\ \A t \in Tasks, r \in Responses :
            (VerifyEnds(t, r) /\ ~hub_request[t].changed) =>
                LET k == hub_request[t].cookie
                IN IF r # ConnectionError /\ r.status = 404
                   THEN cookie_cache' = SetItem(cookie_cache, k, None, now)
                   ELSE IF r # ConnectionError /\ r.status = 200
                           /\ r.body \in UserModels
                        THEN cookie_cache' = SetItem(cookie_cache, k, r.body, now)
                        ELSE ret'[t].kind = "raise" => cookie_cache' = cookie_cache
      ]_vars

\* the only task that has made calls waits for the Hub although the cache
\* holds a live user model for the cookie it asks about, stored earlier: its
\* call was made with use_cache=False
C15_Witness ==
    \E t \in Tasks, k \in CookieValues :
        /\ pc[t] = "waiting"
        /\ call[t] = "user_for_cookie"
        /\ hub_request[t] = HubRequest(k, FALSE)
        /\ Live(cookie_cache, k, now)
        /\ cookie_cache.values[k] \in UserModels
        /\ cookie_cache.timestamps[k] < now
        /\ \A o \in Tasks \ {t} : call[o] = "none"

\* C16: a user_for_cookie call for a cookie without an entry sends its own
\* request also while another call's request for the same cookie is in flight;
\* when the Hub keeps to one answer for the cookie, every call for it that has
\* ended, in whatever order the calls and the responses came, has ended in the
\* outcome of that answer, the cache holds nothing but that verdict for the
\* cookie, and holds it once no call is under way.
C16_ConcurrentCallsConverge ==
    [][LET verdict == Interpret(hub_answer)
       IN /\ \A t \in Tasks, u \in BOOLEAN :
               (/\ UserForCookieCall(t, SameCookie, u)
                /\ SameCookie \notin DOMAIN cookie_cache.values
                /\ \E o \in Tasks \ {t} : pc[o] = "waiting") =>
                   /\ pc'[t] = "waiting"
                   /\ hub_request'[t].sent
                   /\ \A o \in Tasks \ {t} : hub_request'[o] = hub_request[o]
          /\ \A t \in Tasks :
               (pc'[t] = "idle" /\ call'[t] = "user_for_cookie") =>
                   ret'[t] = verdict
          /\ SameCookie \in DOMAIN cookie_cache'.values =>
               /\ verdict.kind = "return"
               /\ cookie_cache'.values[SameCookie] = verdict.value
          /\ (/\ \A t \in Tasks : pc'[t] = "idle"
              /\ \E t \in Tasks : call'[t] = "user_for_cookie"
              /\ verdict.kind = "return") =>
                   SameCookie \in DOMAIN cookie_cache'.values
      ]_vars

\* both tasks have a request for the same cookie in flight, the cookie having
\* no entry, and the Hub's answer to both will be a user model
C16_Witness ==
    /\ \A t \in Tasks :
          /\ pc[t] = "waiting"
          /\ call[t] = "user_for_cookie"
          /\ hub_request[t].sent
          /\ hub_request[t].cookie = SameCookie
    /\ SameCookie \notin DOMAIN cookie_cache.values
    /\ hub_answer \in Responses \ {ConnectionError}
    /\ hub_answer.status = 200
    /\ hub_answer.body \in UserModels

\* the first get_user of a request, as the step of task t
FirstGetUser(t) == GetUserCall(t) /\ ~handler[t].cached_hub_user.set

\* the step makes the one user_for_cookie call of the request of task t with
\* the value of its cookie, and the slot is given what the call returns: the
\* entry of the cache at once, or what the Hub's response will say
VerifiesCookie(t) ==
    LET k == handler[t].cookie.value
    IN /\ request_obs'[t].verify_calls = 1
       /\ IF pc'[t] = "idle"
          THEN /\ k \in DOMAIN cookie_cache.values
               /\ ret'[t] = Return(cookie_cache.values[k])
               /\ handler'[t].cached_hub_user = Slot(cookie_cache.values[k])
          ELSE /\ hub_request'[t].sent
               /\ hub_request'[t].cookie = k

\* the response to the user_for_cookie call of a get_user is returned by
\* get_user and kept in the slot
MemoizesReturn ==
    \A t \in Tasks, r \in Responses :
        (HandlerEnds(t, r) /\ call[t] = "get_user" /\ ret'[t].kind = "return") =>
            /\ ret'[t] = Interpret(r)
            /\ handler'[t].cached_hub_user = Slot(ret'[t].value)
            /\ request_obs'[t].verify_calls = 1

\* C17, as claimed: on a request whose cookie is present, with any value, the
\* empty string included, the first get_user calls user_for_cookie once with
\* that value and keeps what it returns in the slot.
C17_AnyPresentCookieVerified ==
    [][/\ \A t \in Tasks :
            (FirstGetUser(t) /\ handler[t].cookie.present) => VerifiesCookie(t)
       /\ MemoizesReturn
      ]_vars

\* C17, amended: on a request whose cookie is present and not the empty
\* string, the first get_user calls user_for_cookie once with that value and
\* keeps what it returns in the slot; a cookie that is the empty string is
\* taken for a missing one: get_user returns None and keeps None in the slot
\* without calling user_for_cookie.
C17_NonEmptyCookieVerified ==
    [][/\ \A t \in Tasks :
            (FirstGetUser(t) /\ handler[t].cookie.present) =>
                IF handler[t].cookie.value # ""
                THEN VerifiesCookie(t)
                ELSE /\ ret'[t] = Return(None)
                     /\ pc'[t] = "idle"
                     /\ handler'[t].cached_hub_user = Slot(None)
                     /\ request_obs'[t].verify_calls = 0
                     /\ hub_request'[t] = NoRequest
                     /\ cookie_cache' = cookie_cache
       /\ MemoizesReturn
      ]_vars

\* get_user has returned None on a request whose cookie is the empty string,
\* with no user_for_cookie call made
C17_Witness ==
    \E t \in Tasks :
        /\ handler[t].cookie = Cookie("")
        /\ pc[t] = "idle"
        /\ call[t] = "get_user"
        /\ ret[t] = Return(None)
        /\ handler[t].cached_hub_user = Slot(None)
        /\ request_obs[t].verify_calls = 0

\* C18: key in cache applies the age check of cache[key]: at every time it
\* answers True exactly when cache[key] at that moment would return a stored
\* value, a stored None included, and not raise KeyError, that is when the key
\* has an entry that is not over age; and it leaves the cache as cache[key]
\* would, the entry over age removed.
C18_ContainsAsLookup ==
    [][\A k \in CookieValues :
          CacheContains(k) =>
              LET lookup == GetItem(cookie_cache, k, now)
              IN /\ cache_ret'.found = lookup.found
                 /\ cookie_cache' = lookup.cache
                 /\ cache_ret'.found = Live(cookie_cache, k, now)
                 /\ (k \in DOMAIN cookie_cache.values /\ ~Live(cookie_cache, k, now)) =>
                       /\ k \notin DOMAIN cookie_cache'.values
                       /\ k \notin DOMAIN cookie_cache'.timestamps]_vars

\* key in cache has answered False for a key whose entry, a stored None, was
\* over age, and has removed the entry, the other key's entry staying
C18_Witness ==
    /\ cache_ret.op = "__contains__"
    /\ cache_ret.at = now
    /\ ~cache_ret.found
    /\ cache_ret.expect.kind = "Stored"
    /\ cache_ret.expect.value = None
    /\ cache_ret.key \notin DOMAIN cookie_cache.values
    /\ \E j \in CookieValues \ {cache_ret.key} : j \in DOMAIN cookie_cache.values

\* the step is an operation on key a: a lookup, a get, a contains, or a
\* user_for_cookie call for a (its get) or the end of one (its set)
OperatesOn(a) ==
    \/ CacheGetItem(a)
    \/ CacheGet(a)
    \/ CacheContains(a)
    \/ \E t \in Tasks, u \in BOOLEAN : UserForCookieCall(t, a, u)
    \/ \E t \in Tasks, r \in Responses : VerifyEnds(t, r) /\ hub_request[t].cookie = a

\* the step leaves key b as it was: in or out of values and timestamps, with
\* the same value and the same timestamp
SameEntry(b) ==
    /\ (b \in DOMAIN cookie_cache'.values) = (b \in DOMAIN cookie_cache.values)
    /\ (b \in DOMAIN cookie_cache'.timestamps) = (b \in DOMAIN cookie_cache.timestamps)
    /\ b \in DOMAIN cookie_cache.values =>
          cookie_cache'.values[b] = cookie_cache.values[b]
    /\ b \in DOMAIN cookie_cache.timestamps =>
          cookie_cache'.timestamps[b] = cookie_cache.timestamps[b]

\* C19: a set, lookup, get, contains or user_for_cookie on one key, the removal
\* of that key's entry over age included, leaves every other key as it was:
\* none is added, removed, or given another value or timestamp.
C19_KeysIndependent ==
    [][\A a, b \in CookieValues : (a # b /\ OperatesOn(a)) => SameEntry(b)]_vars

\* the lookup of a user_for_cookie call has removed the entry over age of its
\* cookie while the other key's entry, over age as well, is still stored
C19_Witness ==
    \E a, b \in CookieValues :
        /\ a # b
        /\ pc[CacheUser] = "waiting"
        /\ hub_request[CacheUser] = HubRequest(a, TRUE)
        /\ a \notin DOMAIN cookie_cache.values
        /\ b \in DOMAIN cookie_cache.values
        /\ b \in DOMAIN cookie_cache.timestamps
        /\ ~Live(cookie_cache, b, now)

\* C20: after every operation on the cache (a set, a lookup, a get, a
\* contains, each with the removal of an entry over age it may do) the keys
\* that have a timestamp are the keys that have a value.
C20_TimestampsMatchValues ==
    DOMAIN cookie_cache.timestamps = DOMAIN cookie_cache.values

\* a lookup has just removed the entry over age of its key, and the other key
\* still has its value and its timestamp
C20_Witness ==
    /\ cache_ret.op = "__getitem__"
    /\ cache_ret.at = now
    /\ ~cache_ret.found
    /\ cache_ret.expect.kind = "Stored"
    /\ cache_ret.key \notin DOMAIN cookie_cache.values
    /\ cache_ret.key \notin DOMAIN cookie_cache.timestamps
    /\ Cardinality(DOMAIN cookie_cache.values) = 1
    /\ Cardinality(DOMAIN cookie_cache.timestamps) = 1

====
